---- MODULE Spec2Model ----
(***************************************************************************)
(* Model of the BJJ position graph (src/bjj_domain.py) and of the          *)
(* narrative drill-through session (src/narrative_engine.py).              *)
(*                                                                         *)
(* State:                                                                  *)
(*   positions    BJJGraph.positions   : dict  id -> Position              *)
(*   transitions  BJJGraph.transitions : list of Transition                *)
(*   graph        BJJGraph.graph       : networkx.DiGraph                  *)
(*   sessions     the live NarrativeSession objects (the session holds a   *)
(*                reference to the one BJJGraph above)                     *)
(*   last         the most recent call: its name, argument, return value   *)
(*                                                                         *)
(* A Position is modelled by its id, name and default_drills; a Transition *)
(* by from_position, to_position, action, probability (in percent) and     *)
(* drill_prescription.  The fields that only the text formatting reads     *)
(* (description, advantages, common_mistakes, opponent_reaction,           *)
(* decision_quality) do not influence any operation and are left out.      *)
(* A DrillPrescription is modelled by its name; Python's None by "None".   *)
(***************************************************************************)
EXTENDS Integers, Sequences, FiniteSets, TLC

VARIABLES positions, transitions, graph, sessions, last, cli

vars == <<positions, transitions, graph, sessions, last, cli>>

(***************************************************************************)
(* Bounds and input sets                                                   *)
(***************************************************************************)
\* most AddTransition calls in one run
MaxTransitions == 3
\* most TakeAction calls on one session
MaxSteps == 2

\* most transitions taken in one run of the command-line program
MaxCliSteps == 6

\* largest menu get_user_choice is called with on its own
MaxChoice == 4

None == "None"

Keys == {"closed_guard", "broken_posture", "mount"}

NoPosition == [id |-> None, name |-> None, default_drills |-> <<>>]

\* Position objects handed to add_position.  Two of them share the key
\* closed_guard and differ in their attributes; the key mount is never given
\* a Position, so it is dangling in every run.
PositionInputs ==
  { [id |-> "closed_guard",   name |-> "Closed Guard",    default_drills |-> <<"Posture Break Drill">>],
    [id |-> "closed_guard",   name |-> "Closed Guard II", default_drills |-> <<>>],
    [id |-> "broken_posture", name |-> "Broken Posture in Guard", default_drills |-> <<"Kimura Setup Drill">>] }

Tr(f, t, a, p, d) ==
  [from_position |-> f, to_position |-> t, action |-> a, probability |-> p,
   drill_prescription |-> d]

\* Transition objects handed to add_transition / take_action.  T1 and T2 are
\* the first two edges of create_sample_graph (probabilities 0.7 and 0.3);
\* T3 ties with T1 on probability and carries no drill; T4 shares T1's
\* (source, destination) pair and T1's drill; T5 leaves broken_posture.
T1 == Tr("closed_guard", "broken_posture", "T1", 70, "D1")
T2 == Tr("closed_guard", "closed_guard", "T2", 30, "D2")
T3 == Tr("closed_guard", "mount", "T3", 70, None)
T4 == Tr("closed_guard", "broken_posture", "T4", 30, "D1")
T5 == Tr("broken_posture", "mount", "T5", 70, None)

TransitionInputs == {T1, T2, T3, T4, T5}

NoCall == [op |-> "none", self |-> 0, arg |-> None, ret |-> None, old |-> None]

\* the command-line program is not running
NoCli ==
  [pc |-> "off", transitions |-> <<>>, max_choice |-> 0, choice |-> 0,
   raised |-> None, status |-> 0, reported |-> FALSE, traceback |-> FALSE]

(***************************************************************************)
(* networkx.DiGraph, as far as BJJGraph uses it.  node is the node         *)
(* attribute dict (a function whose domain is the node set); adj[u] is the *)
(* insertion-ordered successor dict of u, a sequence of [v, data] entries  *)
(* with pairwise different v.                                              *)
(***************************************************************************)
EmptyDiGraph == [node |-> <<>>, adj |-> <<>>]

nx_has_node(G, n) == n \in DOMAIN G.node

\* a bug variant: adding a node again starts it over without edges
nx_add_node_reset(G, n, d) ==
  [node |-> [k \in DOMAIN G.node \cup {n} |-> IF k = n THEN d ELSE G.node[k]],
   adj  |-> [k \in DOMAIN G.node \cup {n} |->
               IF k \in DOMAIN G.node /\ k # n THEN G.adj[k] ELSE <<>>]]

\* DiGraph.add_node(n, data=d): a new node gets an empty successor dict; an
\* existing node keeps its edges and has its attribute overwritten.
nx_add_node(G, n, d) ==
  [node |-> [k \in DOMAIN G.node \cup {n} |-> IF k = n THEN d ELSE G.node[k]],
   adj  |-> [k \in DOMAIN G.node \cup {n} |->
               IF k \in DOMAIN G.node THEN G.adj[k] ELSE <<>>]]

\* the node is created without attributes when an edge names it first
nx_touch_node(G, n) == IF nx_has_node(G, n) THEN G ELSE nx_add_node(G, n, None)

\* dict assignment d[v] = data on an insertion-ordered dict: an existing key
\* keeps its place and gets the new value, a new key goes to the end.
DictSet(d, v, data) ==
  IF \E i \in 1..Len(d) : d[i].v = v
  THEN [i \in 1..Len(d) |-> IF d[i].v = v THEN [v |-> v, data |-> data] ELSE d[i]]
  ELSE Append(d, [v |-> v, data |-> data])

\* DiGraph.add_edge(u, v, data=t): creates u and v when missing, then
\* updates the attribute dict of the one edge (u, v).
nx_add_edge(G, u, v, data) ==
  LET G1 == nx_touch_node(G, u)
      G2 == nx_touch_node(G1, v)
  IN  [G2 EXCEPT !.adj[u] = DictSet(G2.adj[u], v, data)]

\* DiGraph.edges(n, data=True): the out-edges of n in successor-dict order
nx_edges(G, n) == G.adj[n]

(***************************************************************************)
(* BJJGraph                                                                *)
(***************************************************************************)
\* a bug variant: a key that the edge graph knows resolves to a stand-in
\* position (the lookup goes through the graph's nodes)
get_position_of_node(pos, position_id) ==
  IF position_id \in DOMAIN pos THEN pos[position_id]
  ELSE IF nx_has_node(graph, position_id)
       THEN [id |-> position_id, name |-> position_id, default_drills |-> <<>>]
       ELSE NoPosition

\* BJJGraph.get_position: dict.get, None when the key is missing
get_position(pos, position_id) ==
  IF position_id \in DOMAIN pos THEN pos[position_id] ELSE NoPosition

RECURSIVE SetToSeq(_)
SetToSeq(S) ==
  IF S = {} THEN <<>>
  ELSE LET x == CHOOSE y \in S : TRUE IN <<x>> \o SetToSeq(S \ {x})

\* a bug variant: the neighbours of an undirected graph, incoming edges too
get_transitions_undirected(G, position_id) ==
  IF nx_has_node(G, position_id)
  THEN [i \in 1..Len(nx_edges(G, position_id)) |-> nx_edges(G, position_id)[i].data]
       \o SetToSeq({e.data : e \in
             UNION {{nx_edges(G, u)[i] : i \in 1..Len(nx_edges(G, u))} :
                      u \in DOMAIN G.node \ {position_id}}}
             \cap {t \in TransitionInputs : t.to_position = position_id})
  ELSE <<>>

\* BJJGraph.get_transitions_from
get_transitions_from(G, position_id) ==
  IF nx_has_node(G, position_id)
  THEN [i \in 1..Len(nx_edges(G, position_id)) |-> nx_edges(G, position_id)[i].data]
  ELSE <<>>

\* BJJGraph.get_drill_for_transition
get_drill_for_transition(t) == t.drill_prescription

\* BJJGraph.get_position_drills
get_position_drills(pos, position_id) ==
  IF get_position(pos, position_id) # NoPosition
  THEN get_position(pos, position_id).default_drills
  ELSE <<>>

\* a bug variant: the first write of a key wins
PutPositionFirstWins(pos, p) ==
  [k \in DOMAIN pos \cup {p.id} |-> IF k \in DOMAIN pos THEN pos[k] ELSE p]

\* self.positions[position.id] = position
PutPosition(pos, p) ==
  [k \in DOMAIN pos \cup {p.id} |-> IF k = p.id THEN p ELSE pos[k]]

\* the BJJGraph object as one value
Bjj == [positions |-> positions, transitions |-> transitions, graph |-> graph]

\* a bug variant: looking a key up registers it as a node of the edge graph
LookupRegisters(B, position_id) ==
  [B EXCEPT !.graph = nx_touch_node(B.graph, position_id)]

\* the BJJGraph after get_position(position_id) or
\* get_transitions_from(position_id): dict.get, the membership test and the
\* edge view assign nothing
LookupLeaves(B, position_id) == B

\* the graph fields take the values of B
BjjBecomes(B) ==
  /\ positions' = B.positions
  /\ transitions' = B.transitions
  /\ graph' = B.graph

EmptyBjj == [positions |-> <<>>, transitions |-> <<>>, graph |-> EmptyDiGraph]

\* BJJGraph.add_position
bjj_add_position(B, p) ==
  [positions   |-> PutPosition(B.positions, p),
   transitions |-> B.transitions,
   graph       |-> nx_add_node(B.graph, p.id, p)]

\* BJJGraph.add_transition
bjj_add_transition(B, t) ==
  [positions   |-> B.positions,
   transitions |-> Append(B.transitions, t),
   graph       |-> nx_add_edge(B.graph, t.from_position, t.to_position, t)]

\* graph.add_position(p).  last.old is the entry the call replaced.
add_position(p) ==
  LET B == bjj_add_position(Bjj, p)
  IN  /\ positions' = B.positions
      /\ transitions' = B.transitions
      /\ graph' = B.graph
      /\ last' = [op |-> "add_position", self |-> 0, arg |-> p, ret |-> None,
                  old |-> get_position(positions, p.id)]
      /\ UNCHANGED sessions
      /\ UNCHANGED cli

\* graph.add_transition(t)
add_transition(t) ==
  LET B == bjj_add_transition(Bjj, t)
  IN  /\ Len(transitions) < MaxTransitions
      /\ positions' = B.positions
      /\ transitions' = B.transitions
      /\ graph' = B.graph
      /\ last' = [op |-> "add_transition", self |-> 0, arg |-> t, ret |-> None,
                  old |-> None]
      /\ UNCHANGED sessions
      /\ UNCHANGED cli

\* graph.get_position(k)
graph_get_position(k) ==
  /\ last' = [op |-> "get_position", self |-> 0, arg |-> k,
              ret |-> get_position(positions, k), old |-> None]
  /\ UNCHANGED <<positions, transitions, graph, sessions>>
  /\ UNCHANGED cli

\* graph.get_transitions_from(k)
graph_get_transitions_from(k) ==
  /\ last' = [op |-> "get_transitions_from", self |-> 0, arg |-> k,
              ret |-> get_transitions_from(graph, k), old |-> None]
  /\ UNCHANGED <<positions, transitions, graph, sessions>>
  /\ UNCHANGED cli

\* the keys a caller asks about: the keys of the inputs and one key that no
\* Position and no Transition mentions
QueryKeys == Keys \cup {"nonexistent"}

AddPosition == \E p \in PositionInputs : add_position(p)

GetPosition == \E k \in QueryKeys : graph_get_position(k)

GetTransitionsFrom == \E k \in QueryKeys : graph_get_transitions_from(k)

AddTransition == \E t \in TransitionInputs : add_transition(t)

(***************************************************************************)
(* NarrativeSession                                                        *)
(***************************************************************************)
\* NarrativeSession.__init__ (NarrativeEngine.start_session)
NarrativeSession(starting_position) ==
  [current_position |-> starting_position, history |-> <<>>, drills_earned |-> <<>>]

\* NarrativeSession.get_current_position
get_current_position(s) == get_position(positions, s.current_position)

\* x goes before every element whose probability is <= its own
RECURSIVE InsertAfterGreater(_, _)
InsertAfterGreater(sorted, x) ==
  IF sorted = <<>> THEN <<x>>
  ELSE IF Head(sorted).probability > x.probability
       THEN <<Head(sorted)>> \o InsertAfterGreater(Tail(sorted), x)
       ELSE <<x>> \o sorted

\* x goes behind every element whose probability is >= its own
RECURSIVE InsertByProbability(_, _)
InsertByProbability(sorted, x) ==
  IF sorted = <<>> THEN <<x>>
  ELSE IF Head(sorted).probability >= x.probability
       THEN <<Head(sorted)>> \o InsertByProbability(Tail(sorted), x)
       ELSE <<x>> \o sorted

\* a bug variant of the sort: ascending sort, then reversed (ties swap)
RECURSIVE SortedTiesReversed(_)
SortedTiesReversed(ts) ==
  IF ts = <<>> THEN <<>>
  ELSE InsertAfterGreater(SortedTiesReversed(SubSeq(ts, 1, Len(ts) - 1)),
                          ts[Len(ts)])

\* sorted(ts, key=lambda t: t.probability, reverse=True): stable, descending
RECURSIVE SortedByProbability(_)
SortedByProbability(ts) ==
  IF ts = <<>> THEN <<>>
  ELSE InsertByProbability(SortedByProbability(SubSeq(ts, 1, Len(ts) - 1)),
                           ts[Len(ts)])

\* NarrativeSession.get_available_actions
get_available_actions(s) ==
  SortedByProbability(get_transitions_from(graph, s.current_position))

\* a bug variant: a drill already earned is not recorded again
EarnDrillOnce(drills, drill) ==
  IF drill # None /\ (\A i \in 1..Len(drills) : drills[i] # drill)
  THEN Append(drills, drill) ELSE drills

\* if drill: self.drills_earned.append(drill)
EarnDrill(drills, drill) ==
  IF drill # None THEN Append(drills, drill) ELSE drills

\* a bug variant: the history records the position moved to
SessionAfterRecordingTarget(s, t) ==
  [current_position |-> t.to_position,
   history          |-> Append(s.history, <<t.to_position, t.action>>),
   drills_earned    |-> EarnDrill(s.drills_earned, get_drill_for_transition(t))]

\* a bug variant: new entries go to the front of the logs
SessionAfterPrepending(s, t) ==
  [current_position |-> t.to_position,
   history          |-> <<<<s.current_position, t.action>>>> \o s.history,
   drills_earned    |-> IF get_drill_for_transition(t) # None
                        THEN <<get_drill_for_transition(t)>> \o s.drills_earned
                        ELSE s.drills_earned]

\* the session state NarrativeSession.take_action leaves behind
SessionAfter(s, t) ==
  [current_position |-> t.to_position,
   history          |-> Append(s.history, <<s.current_position, t.action>>),
   drills_earned    |-> EarnDrill(s.drills_earned, get_drill_for_transition(t))]

\* the pair NarrativeSession.take_action returns
TakeActionResult(t) ==
  <<get_position(positions, t.to_position), get_drill_for_transition(t)>>

\* a bug variant: the starting position is not counted
SummaryOfHistoryOnly(s) ==
  [positions_visited |-> Len(s.history),
   actions_taken     |-> [i \in 1..Len(s.history) |-> s.history[i][2]],
   total_drills      |-> Len(s.drills_earned),
   drills            |-> s.drills_earned]

\* a bug variant: a drill earned twice is counted once
SummaryCountsDistinctDrills(s) ==
  [positions_visited |-> Len(s.history) + 1,
   actions_taken     |-> [i \in 1..Len(s.history) |-> s.history[i][2]],
   total_drills      |-> Cardinality({s.drills_earned[i] : i \in 1..Len(s.drills_earned)}),
   drills            |-> s.drills_earned]

\* NarrativeSession.get_session_summary
get_session_summary(s) ==
  [positions_visited |-> Len(s.history) + 1,
   actions_taken     |-> [i \in 1..Len(s.history) |-> s.history[i][2]],
   total_drills      |-> Len(s.drills_earned),
   drills            |-> s.drills_earned]

\* a bug variant: handing out the summary empties the rewards log
SessionAfterQueryDrained(s) == [s EXCEPT !.drills_earned = <<>>]

\* the session after get_current_position, get_available_actions or
\* get_session_summary: none of them assigns an attribute of the session
SessionAfterQuery(s) == s

\* a bug variant: history and drills_earned are lists shared by all sessions
\* (class attributes), so every session sees the entries of every other
SessionsAfterTakeShared(ss, sid, t) ==
  [i \in DOMAIN ss |->
     IF i = sid THEN SessionAfter(ss[sid], t)
     ELSE [ss[i] EXCEPT
             !.history = Append(@, <<ss[sid].current_position, t.action>>),
             !.drills_earned = EarnDrill(@, get_drill_for_transition(t))]]

\* the sessions after take_action(t) on session sid: the lists are created
\* per instance in __init__, so only that session changes
SessionsAfterTake(ss, sid, t) == [ss EXCEPT ![sid] = SessionAfter(ss[sid], t)]

\* engine.start_session(k), bound to the session handle sid
start_session(sid, k) ==
  /\ sessions' = [sessions EXCEPT ![sid] = NarrativeSession(k)]
  /\ last' = [op |-> "start_session", self |-> sid, arg |-> k, ret |-> None,
              old |-> None]
  /\ UNCHANGED <<positions, transitions, graph>>
  /\ UNCHANGED cli

\* a bug variant: a position the session has been at cannot be entered again
take_action_no_revisit(sid, t) ==
  /\ Len(sessions[sid].history) < MaxSteps
  /\ t.to_position # sessions[sid].current_position
  /\ \A i \in 1..Len(sessions[sid].history) :
        sessions[sid].history[i][1] # t.to_position
  /\ sessions' = SessionsAfterTake(sessions, sid, t)
  /\ last' = [op |-> "take_action", self |-> sid, arg |-> t,
              ret |-> TakeActionResult(t), old |-> None]
  /\ BjjBecomes(LookupLeaves(Bjj, t.to_position))
  /\ UNCHANGED cli

\* session.take_action(t)
take_action(sid, t) ==
  /\ Len(sessions[sid].history) < MaxSteps
  /\ sessions' = SessionsAfterTake(sessions, sid, t)
  /\ last' = [op |-> "take_action", self |-> sid, arg |-> t,
              ret |-> TakeActionResult(t), old |-> None]
  /\ BjjBecomes(LookupLeaves(Bjj, t.to_position))
  /\ UNCHANGED cli

\* session.get_current_position()
current_position(sid) ==
  /\ last' = [op |-> "get_current_position", self |-> sid, arg |-> None,
              ret |-> get_current_position(sessions[sid]), old |-> None]
  /\ sessions' = [sessions EXCEPT ![sid] = SessionAfterQuery(sessions[sid])]
  /\ BjjBecomes(LookupLeaves(Bjj, sessions[sid].current_position))
  /\ UNCHANGED cli

\* session.get_available_actions()
available_actions(sid) ==
  /\ last' = [op |-> "get_available_actions", self |-> sid, arg |-> None,
              ret |-> get_available_actions(sessions[sid]), old |-> None]
  /\ sessions' = [sessions EXCEPT ![sid] = SessionAfterQuery(sessions[sid])]
  /\ BjjBecomes(LookupLeaves(Bjj, sessions[sid].current_position))
  /\ UNCHANGED cli

\* session.get_session_summary()
session_summary(sid) ==
  /\ last' = [op |-> "get_session_summary", self |-> sid, arg |-> None,
              ret |-> get_session_summary(sessions[sid]), old |-> None]
  /\ sessions' = [sessions EXCEPT ![sid] = SessionAfterQuery(sessions[sid])]
  /\ UNCHANGED <<positions, transitions, graph>>
  /\ UNCHANGED cli

\* the transitions a caller holds: the objects that were added to the graph
KnownTransitions == {transitions[i] : i \in 1..Len(transitions)}

StartSession == \E sid \in DOMAIN sessions : \E k \in Keys : start_session(sid, k)

TakeAction == \E sid \in DOMAIN sessions : \E t \in KnownTransitions : take_action(sid, t)

CurrentPosition == \E sid \in DOMAIN sessions : current_position(sid)

AvailableActions == \E sid \in DOMAIN sessions : available_actions(sid)

Summary == \E sid \in DOMAIN sessions : session_summary(sid)

(***************************************************************************)
(* Spec: population and lookups of the graph, no session yet.              *)
(***************************************************************************)
\* BJJGraph.__init__
Init ==
  /\ positions = EmptyBjj.positions
  /\ transitions = EmptyBjj.transitions
  /\ graph = EmptyBjj.graph
  /\ sessions = <<>>
  /\ last = NoCall
  /\ cli = NoCli

Next == AddPosition \/ AddTransition \/ GetPosition \/ GetTransitionsFrom

Spec == Init /\ [][Next]_vars

(***************************************************************************)
(* SpecSession: one session on a graph that was populated before the       *)
(* session began (the order run_interactive_session follows).              *)
(***************************************************************************)
SeqsUpTo(S, n) == UNION {[1..m -> S] : m \in 0..n}

RECURSIVE AddTransitions(_, _)
AddTransitions(B, ts) ==
  IF ts = <<>> THEN B
  ELSE bjj_add_transition(AddTransitions(B, SubSeq(ts, 1, Len(ts) - 1)), ts[Len(ts)])

RECURSIVE AddPositions(_, _)
AddPositions(B, ps) ==
  IF ps = {} THEN B
  ELSE LET p == CHOOSE q \in ps : TRUE
       IN  bjj_add_position(AddPositions(B, ps \ {p}), p)

\* the sets of positions a seeding adds: at most one Position per key
SeedPositions ==
  {ps \in SUBSET PositionInputs : \A p, q \in ps : p.id = q.id => p = q}

\* the add_transition calls of a seeding: every Transition object once
SeedTransitions ==
  {ts \in SeqsUpTo(TransitionInputs, MaxTransitions) :
     \A i, j \in 1..Len(ts) : i # j => ts[i] # ts[j]}

\* the graph after add_position for each of ps, then add_transition for ts
Populated(ps, ts) == AddTransitions(AddPositions(EmptyBjj, ps), ts)

InitSession ==
  \E ps \in SeedPositions, ts \in SeedTransitions, k \in Keys :
    /\ positions = Populated(ps, ts).positions
    /\ transitions = Populated(ps, ts).transitions
    /\ graph = Populated(ps, ts).graph
    /\ sessions = <<NarrativeSession(k)>>
    /\ last = [op |-> "start_session", self |-> 1, arg |-> k, ret |-> None,
               old |-> None]
    /\ cli = NoCli

NextSession ==
  StartSession \/ TakeAction \/ CurrentPosition \/ AvailableActions \/ Summary

SpecSession == InitSession /\ [][NextSession]_vars

(***************************************************************************)
(* SpecTwo: two sessions of one engine on one shared graph, their calls    *)
(* interleaved in every order.                                             *)
(***************************************************************************)
\* the shared graph: positions closed_guard and broken_posture, edges T1, T2, T5
SharedGraph ==
  Populated({p \in PositionInputs : p.name # "Closed Guard II"}, <<T1, T2, T5>>)

InitTwo ==
  \E k1 \in Keys, k2 \in Keys :
    /\ positions = SharedGraph.positions
    /\ transitions = SharedGraph.transitions
    /\ graph = SharedGraph.graph
    /\ sessions = <<NarrativeSession(k1), NarrativeSession(k2)>>
    /\ last = [op |-> "start_session", self |-> 2, arg |-> k2, ret |-> None,
               old |-> None]
    /\ cli = NoCli

NextTwo ==
  StartSession \/ TakeAction \/ CurrentPosition \/ AvailableActions \/ Summary

SpecTwo == InitTwo /\ [][NextTwo]_vars

(***************************************************************************)
(* Text handling of the command-line program: str.strip, str.lower, int,   *)
(* list indexing and the exception classes.  A text is a sequence of       *)
(* Unicode code points (numbers); the tables are those of Python 3.11      *)
(* (Unicode 14.0).                                                         *)
(***************************************************************************)
\* the characters str.strip() removes
Whitespace ==
  {133, 160, 5760, 8239, 8287, 12288} \cup (9..13) \cup (28..32) \cup (8192..8202) \cup (8232..8233)

\* the characters int() removes around a literal: the same without the four
\* separators U+001C..U+001F
IntWhitespace == Whitespace \ (28..31)

RECURSIVE LStrip(_, _)
LStrip(s, W) == IF s # <<>> /\ s[1] \in W THEN LStrip(Tail(s), W) ELSE s

RECURSIVE RStrip(_, _)
RStrip(s, W) ==
  IF s # <<>> /\ s[Len(s)] \in W THEN RStrip(SubSeq(s, 1, Len(s) - 1), W) ELSE s

\* str.lstrip()
lstrip(s) == LStrip(s, Whitespace)

\* str.rstrip()
rstrip(s) == RStrip(s, Whitespace)

\* str.strip()
strip(s) == rstrip(lstrip(s))

\* the characters with a one-character lower case that differs from them, as
\* runs <<first, last, step, offset>>: first, first + step, ..., last each map
\* to themselves plus offset
LowerRuns ==
  {
    <<65, 90, 1, 32>>, <<192, 214, 1, 32>>, <<216, 222, 1, 32>>, <<256, 302,
    2, 1>>, <<306, 310, 2, 1>>, <<313, 327, 2, 1>>, <<330, 374, 2, 1>>,
    <<376, 376, 1, -121>>, <<377, 381, 2, 1>>, <<385, 385, 1, 210>>, <<386,
    388, 2, 1>>, <<390, 390, 1, 206>>, <<391, 391, 1, 1>>, <<393, 394, 1,
    205>>, <<395, 395, 1, 1>>, <<398, 398, 1, 79>>, <<399, 399, 1, 202>>,
    <<400, 400, 1, 203>>, <<401, 401, 1, 1>>, <<403, 403, 1, 205>>, <<404,
    404, 1, 207>>, <<406, 406, 1, 211>>, <<407, 407, 1, 209>>, <<408, 408,
    1, 1>>, <<412, 412, 1, 211>>, <<413, 413, 1, 213>>, <<415, 415, 1,
    214>>, <<416, 420, 2, 1>>, <<422, 422, 1, 218>>, <<423, 423, 1, 1>>,
    <<425, 425, 1, 218>>, <<428, 428, 1, 1>>, <<430, 430, 1, 218>>, <<431,
    431, 1, 1>>, <<433, 434, 1, 217>>, <<435, 437, 2, 1>>, <<439, 439, 1,
    219>>, <<440, 440, 1, 1>>, <<444, 444, 1, 1>>, <<452, 452, 1, 2>>,
    <<453, 453, 1, 1>>, <<455, 455, 1, 2>>, <<456, 456, 1, 1>>, <<458, 458,
    1, 2>>, <<459, 475, 2, 1>>, <<478, 494, 2, 1>>, <<497, 497, 1, 2>>,
    <<498, 500, 2, 1>>, <<502, 502, 1, -97>>, <<503, 503, 1, -56>>, <<504,
    542, 2, 1>>, <<544, 544, 1, -130>>, <<546, 562, 2, 1>>, <<570, 570, 1,
    10795>>, <<571, 571, 1, 1>>, <<573, 573, 1, -163>>, <<574, 574, 1,
    10792>>, <<577, 577, 1, 1>>, <<579, 579, 1, -195>>, <<580, 580, 1, 69>>,
    <<581, 581, 1, 71>>, <<582, 590, 2, 1>>, <<880, 882, 2, 1>>, <<886, 886,
    1, 1>>, <<895, 895, 1, 116>>, <<902, 902, 1, 38>>, <<904, 906, 1, 37>>,
    <<908, 908, 1, 64>>, <<910, 911, 1, 63>>, <<913, 929, 1, 32>>, <<931,
    939, 1, 32>>, <<975, 975, 1, 8>>, <<984, 1006, 2, 1>>, <<1012, 1012, 1,
    -60>>, <<1015, 1015, 1, 1>>, <<1017, 1017, 1, -7>>, <<1018, 1018, 1,
    1>>, <<1021, 1023, 1, -130>>, <<1024, 1039, 1, 80>>, <<1040, 1071, 1,
    32>>, <<1120, 1152, 2, 1>>, <<1162, 1214, 2, 1>>, <<1216, 1216, 1, 15>>,
    <<1217, 1229, 2, 1>>, <<1232, 1326, 2, 1>>, <<1329, 1366, 1, 48>>,
    <<4256, 4293, 1, 7264>>, <<4295, 4295, 1, 7264>>, <<4301, 4301, 1,
    7264>>, <<5024, 5103, 1, 38864>>, <<5104, 5109, 1, 8>>, <<7312, 7354, 1,
    -3008>>, <<7357, 7359, 1, -3008>>, <<7680, 7828, 2, 1>>, <<7838, 7838,
    1, -7615>>, <<7840, 7934, 2, 1>>, <<7944, 7951, 1, -8>>, <<7960, 7965,
    1, -8>>, <<7976, 7983, 1, -8>>, <<7992, 7999, 1, -8>>, <<8008, 8013, 1,
    -8>>, <<8025, 8031, 2, -8>>, <<8040, 8047, 1, -8>>, <<8072, 8079, 1,
    -8>>, <<8088, 8095, 1, -8>>, <<8104, 8111, 1, -8>>, <<8120, 8121, 1,
    -8>>, <<8122, 8123, 1, -74>>, <<8124, 8124, 1, -9>>, <<8136, 8139, 1,
    -86>>, <<8140, 8140, 1, -9>>, <<8152, 8153, 1, -8>>, <<8154, 8155, 1,
    -100>>, <<8168, 8169, 1, -8>>, <<8170, 8171, 1, -112>>, <<8172, 8172, 1,
    -7>>, <<8184, 8185, 1, -128>>, <<8186, 8187, 1, -126>>, <<8188, 8188, 1,
    -9>>, <<8486, 8486, 1, -7517>>, <<8490, 8490, 1, -8383>>, <<8491, 8491,
    1, -8262>>, <<8498, 8498, 1, 28>>, <<8544, 8559, 1, 16>>, <<8579, 8579,
    1, 1>>, <<9398, 9423, 1, 26>>, <<11264, 11311, 1, 48>>, <<11360, 11360,
    1, 1>>, <<11362, 11362, 1, -10743>>, <<11363, 11363, 1, -3814>>,
    <<11364, 11364, 1, -10727>>, <<11367, 11371, 2, 1>>, <<11373, 11373, 1,
    -10780>>, <<11374, 11374, 1, -10749>>, <<11375, 11375, 1, -10783>>,
    <<11376, 11376, 1, -10782>>, <<11378, 11378, 1, 1>>, <<11381, 11381, 1,
    1>>, <<11390, 11391, 1, -10815>>, <<11392, 11490, 2, 1>>, <<11499,
    11501, 2, 1>>, <<11506, 11506, 1, 1>>, <<42560, 42604, 2, 1>>, <<42624,
    42650, 2, 1>>, <<42786, 42798, 2, 1>>, <<42802, 42862, 2, 1>>, <<42873,
    42875, 2, 1>>, <<42877, 42877, 1, -35332>>, <<42878, 42886, 2, 1>>,
    <<42891, 42891, 1, 1>>, <<42893, 42893, 1, -42280>>, <<42896, 42898, 2,
    1>>, <<42902, 42920, 2, 1>>, <<42922, 42922, 1, -42308>>, <<42923,
    42923, 1, -42319>>, <<42924, 42924, 1, -42315>>, <<42925, 42925, 1,
    -42305>>, <<42926, 42926, 1, -42308>>, <<42928, 42928, 1, -42258>>,
    <<42929, 42929, 1, -42282>>, <<42930, 42930, 1, -42261>>, <<42931,
    42931, 1, 928>>, <<42932, 42946, 2, 1>>, <<42948, 42948, 1, -48>>,
    <<42949, 42949, 1, -42307>>, <<42950, 42950, 1, -35384>>, <<42951,
    42953, 2, 1>>, <<42960, 42960, 1, 1>>, <<42966, 42968, 2, 1>>, <<42997,
    42997, 1, 1>>, <<65313, 65338, 1, 32>>, <<66560, 66599, 1, 40>>,
    <<66736, 66771, 1, 40>>, <<66928, 66938, 1, 39>>, <<66940, 66954, 1,
    39>>, <<66956, 66962, 1, 39>>, <<66964, 66965, 1, 39>>, <<68736, 68786,
    1, 64>>, <<71840, 71871, 1, 32>>, <<93760, 93791, 1, 32>>, <<125184,
    125217, 1, 34>> }

RunOf(r) == {r[1] + k * r[3] : k \in 0..((r[2] - r[1]) \div r[3])}

\* the one-character lower-case mapping
UpperToLower ==
  [c \in UNION {RunOf(r) : r \in LowerRuns} |->
     c + (CHOOSE r \in LowerRuns : c \in RunOf(r))[4]]

\* the cased characters that are not case-ignorable, as ranges <<first, last>>
CasedRanges ==
  {
    <<65, 90>>, <<97, 122>>, <<170, 170>>, <<181, 181>>, <<186, 186>>,
    <<192, 214>>, <<216, 246>>, <<248, 442>>, <<444, 447>>, <<452, 659>>,
    <<661, 687>>, <<880, 883>>, <<886, 887>>, <<891, 893>>, <<895, 895>>,
    <<902, 902>>, <<904, 906>>, <<908, 908>>, <<910, 929>>, <<931, 1013>>,
    <<1015, 1153>>, <<1162, 1327>>, <<1329, 1366>>, <<1376, 1416>>, <<4256,
    4293>>, <<4295, 4295>>, <<4301, 4301>>, <<4304, 4346>>, <<4349, 4351>>,
    <<5024, 5109>>, <<5112, 5117>>, <<7296, 7304>>, <<7312, 7354>>, <<7357,
    7359>>, <<7424, 7467>>, <<7531, 7543>>, <<7545, 7578>>, <<7680, 7957>>,
    <<7960, 7965>>, <<7968, 8005>>, <<8008, 8013>>, <<8016, 8023>>, <<8025,
    8025>>, <<8027, 8027>>, <<8029, 8029>>, <<8031, 8061>>, <<8064, 8116>>,
    <<8118, 8124>>, <<8126, 8126>>, <<8130, 8132>>, <<8134, 8140>>, <<8144,
    8147>>, <<8150, 8155>>, <<8160, 8172>>, <<8178, 8180>>, <<8182, 8188>>,
    <<8450, 8450>>, <<8455, 8455>>, <<8458, 8467>>, <<8469, 8469>>, <<8473,
    8477>>, <<8484, 8484>>, <<8486, 8486>>, <<8488, 8488>>, <<8490, 8493>>,
    <<8495, 8500>>, <<8505, 8505>>, <<8508, 8511>>, <<8517, 8521>>, <<8526,
    8526>>, <<8544, 8575>>, <<8579, 8580>>, <<9398, 9449>>, <<11264,
    11387>>, <<11390, 11492>>, <<11499, 11502>>, <<11506, 11507>>, <<11520,
    11557>>, <<11559, 11559>>, <<11565, 11565>>, <<42560, 42605>>, <<42624,
    42651>>, <<42786, 42863>>, <<42865, 42887>>, <<42891, 42894>>, <<42896,
    42954>>, <<42960, 42961>>, <<42963, 42963>>, <<42965, 42969>>, <<42997,
    42998>>, <<43002, 43002>>, <<43824, 43866>>, <<43872, 43880>>, <<43888,
    43967>>, <<64256, 64262>>, <<64275, 64279>>, <<65313, 65338>>, <<65345,
    65370>>, <<66560, 66639>>, <<66736, 66771>>, <<66776, 66811>>, <<66928,
    66938>>, <<66940, 66954>>, <<66956, 66962>>, <<66964, 66965>>, <<66967,
    66977>>, <<66979, 66993>>, <<66995, 67001>>, <<67003, 67004>>, <<68736,
    68786>>, <<68800, 68850>>, <<71840, 71903>>, <<93760, 93823>>, <<119808,
    119892>>, <<119894, 119964>>, <<119966, 119967>>, <<119970, 119970>>,
    <<119973, 119974>>, <<119977, 119980>>, <<119982, 119993>>, <<119995,
    119995>>, <<119997, 120003>>, <<120005, 120069>>, <<120071, 120074>>,
    <<120077, 120084>>, <<120086, 120092>>, <<120094, 120121>>, <<120123,
    120126>>, <<120128, 120132>>, <<120134, 120134>>, <<120138, 120144>>,
    <<120146, 120485>>, <<120488, 120512>>, <<120514, 120538>>, <<120540,
    120570>>, <<120572, 120596>>, <<120598, 120628>>, <<120630, 120654>>,
    <<120656, 120686>>, <<120688, 120712>>, <<120714, 120744>>, <<120746,
    120770>>, <<120772, 120779>>, <<122624, 122633>>, <<122635, 122654>>,
    <<125184, 125251>>, <<127280, 127305>>, <<127312, 127337>>, <<127344,
    127369>> }

\* the case-ignorable characters, as ranges <<first, last>>
CaseIgnorableRanges ==
  {
    <<39, 39>>, <<46, 46>>, <<58, 58>>, <<94, 94>>, <<96, 96>>, <<168,
    168>>, <<173, 173>>, <<175, 175>>, <<180, 180>>, <<183, 184>>, <<688,
    879>>, <<884, 885>>, <<890, 890>>, <<900, 901>>, <<903, 903>>, <<1155,
    1161>>, <<1369, 1369>>, <<1375, 1375>>, <<1425, 1469>>, <<1471, 1471>>,
    <<1473, 1474>>, <<1476, 1477>>, <<1479, 1479>>, <<1524, 1524>>, <<1536,
    1541>>, <<1552, 1562>>, <<1564, 1564>>, <<1600, 1600>>, <<1611, 1631>>,
    <<1648, 1648>>, <<1750, 1757>>, <<1759, 1768>>, <<1770, 1773>>, <<1807,
    1807>>, <<1809, 1809>>, <<1840, 1866>>, <<1958, 1968>>, <<2027, 2037>>,
    <<2042, 2042>>, <<2045, 2045>>, <<2070, 2093>>, <<2137, 2139>>, <<2184,
    2184>>, <<2192, 2193>>, <<2200, 2207>>, <<2249, 2306>>, <<2362, 2362>>,
    <<2364, 2364>>, <<2369, 2376>>, <<2381, 2381>>, <<2385, 2391>>, <<2402,
    2403>>, <<2417, 2417>>, <<2433, 2433>>, <<2492, 2492>>, <<2497, 2500>>,
    <<2509, 2509>>, <<2530, 2531>>, <<2558, 2558>>, <<2561, 2562>>, <<2620,
    2620>>, <<2625, 2626>>, <<2631, 2632>>, <<2635, 2637>>, <<2641, 2641>>,
    <<2672, 2673>>, <<2677, 2677>>, <<2689, 2690>>, <<2748, 2748>>, <<2753,
    2757>>, <<2759, 2760>>, <<2765, 2765>>, <<2786, 2787>>, <<2810, 2815>>,
    <<2817, 2817>>, <<2876, 2876>>, <<2879, 2879>>, <<2881, 2884>>, <<2893,
    2893>>, <<2901, 2902>>, <<2914, 2915>>, <<2946, 2946>>, <<3008, 3008>>,
    <<3021, 3021>>, <<3072, 3072>>, <<3076, 3076>>, <<3132, 3132>>, <<3134,
    3136>>, <<3142, 3144>>, <<3146, 3149>>, <<3157, 3158>>, <<3170, 3171>>,
    <<3201, 3201>>, <<3260, 3260>>, <<3263, 3263>>, <<3270, 3270>>, <<3276,
    3277>>, <<3298, 3299>>, <<3328, 3329>>, <<3387, 3388>>, <<3393, 3396>>,
    <<3405, 3405>>, <<3426, 3427>>, <<3457, 3457>>, <<3530, 3530>>, <<3538,
    3540>>, <<3542, 3542>>, <<3633, 3633>>, <<3636, 3642>>, <<3654, 3662>>,
    <<3761, 3761>>, <<3764, 3772>>, <<3782, 3782>>, <<3784, 3789>>, <<3864,
    3865>>, <<3893, 3893>>, <<3895, 3895>>, <<3897, 3897>>, <<3953, 3966>>,
    <<3968, 3972>>, <<3974, 3975>>, <<3981, 3991>>, <<3993, 4028>>, <<4038,
    4038>>, <<4141, 4144>>, <<4146, 4151>>, <<4153, 4154>>, <<4157, 4158>>,
    <<4184, 4185>>, <<4190, 4192>>, <<4209, 4212>>, <<4226, 4226>>, <<4229,
    4230>>, <<4237, 4237>>, <<4253, 4253>>, <<4348, 4348>>, <<4957, 4959>>,
    <<5906, 5908>>, <<5938, 5939>>, <<5970, 5971>>, <<6002, 6003>>, <<6068,
    6069>>, <<6071, 6077>>, <<6086, 6086>>, <<6089, 6099>>, <<6103, 6103>>,
    <<6109, 6109>>, <<6155, 6159>>, <<6211, 6211>>, <<6277, 6278>>, <<6313,
    6313>>, <<6432, 6434>>, <<6439, 6440>>, <<6450, 6450>>, <<6457, 6459>>,
    <<6679, 6680>>, <<6683, 6683>>, <<6742, 6742>>, <<6744, 6750>>, <<6752,
    6752>>, <<6754, 6754>>, <<6757, 6764>>, <<6771, 6780>>, <<6783, 6783>>,
    <<6823, 6823>>, <<6832, 6862>>, <<6912, 6915>>, <<6964, 6964>>, <<6966,
    6970>>, <<6972, 6972>>, <<6978, 6978>>, <<7019, 7027>>, <<7040, 7041>>,
    <<7074, 7077>>, <<7080, 7081>>, <<7083, 7085>>, <<7142, 7142>>, <<7144,
    7145>>, <<7149, 7149>>, <<7151, 7153>>, <<7212, 7219>>, <<7222, 7223>>,
    <<7288, 7293>>, <<7376, 7378>>, <<7380, 7392>>, <<7394, 7400>>, <<7405,
    7405>>, <<7412, 7412>>, <<7416, 7417>>, <<7468, 7530>>, <<7544, 7544>>,
    <<7579, 7679>>, <<8125, 8125>>, <<8127, 8129>>, <<8141, 8143>>, <<8157,
    8159>>, <<8173, 8175>>, <<8189, 8190>>, <<8203, 8207>>, <<8216, 8217>>,
    <<8228, 8228>>, <<8231, 8231>>, <<8234, 8238>>, <<8288, 8292>>, <<8294,
    8303>>, <<8305, 8305>>, <<8319, 8319>>, <<8336, 8348>>, <<8400, 8432>>,
    <<11388, 11389>>, <<11503, 11505>>, <<11631, 11631>>, <<11647, 11647>>,
    <<11744, 11775>>, <<11823, 11823>>, <<12293, 12293>>, <<12330, 12333>>,
    <<12337, 12341>>, <<12347, 12347>>, <<12441, 12446>>, <<12540, 12542>>,
    <<40981, 40981>>, <<42232, 42237>>, <<42508, 42508>>, <<42607, 42610>>,
    <<42612, 42621>>, <<42623, 42623>>, <<42652, 42655>>, <<42736, 42737>>,
    <<42752, 42785>>, <<42864, 42864>>, <<42888, 42890>>, <<42994, 42996>>,
    <<43000, 43001>>, <<43010, 43010>>, <<43014, 43014>>, <<43019, 43019>>,
    <<43045, 43046>>, <<43052, 43052>>, <<43204, 43205>>, <<43232, 43249>>,
    <<43263, 43263>>, <<43302, 43309>>, <<43335, 43345>>, <<43392, 43394>>,
    <<43443, 43443>>, <<43446, 43449>>, <<43452, 43453>>, <<43471, 43471>>,
    <<43493, 43494>>, <<43561, 43566>>, <<43569, 43570>>, <<43573, 43574>>,
    <<43587, 43587>>, <<43596, 43596>>, <<43632, 43632>>, <<43644, 43644>>,
    <<43696, 43696>>, <<43698, 43700>>, <<43703, 43704>>, <<43710, 43711>>,
    <<43713, 43713>>, <<43741, 43741>>, <<43756, 43757>>, <<43763, 43764>>,
    <<43766, 43766>>, <<43867, 43871>>, <<43881, 43883>>, <<44005, 44005>>,
    <<44008, 44008>>, <<44013, 44013>>, <<64286, 64286>>, <<64434, 64450>>,
    <<65024, 65039>>, <<65043, 65043>>, <<65056, 65071>>, <<65106, 65106>>,
    <<65109, 65109>>, <<65279, 65279>>, <<65287, 65287>>, <<65294, 65294>>,
    <<65306, 65306>>, <<65342, 65342>>, <<65344, 65344>>, <<65392, 65392>>,
    <<65438, 65439>>, <<65507, 65507>>, <<65529, 65531>>, <<66045, 66045>>,
    <<66272, 66272>>, <<66422, 66426>>, <<67456, 67461>>, <<67463, 67504>>,
    <<67506, 67514>>, <<68097, 68099>>, <<68101, 68102>>, <<68108, 68111>>,
    <<68152, 68154>>, <<68159, 68159>>, <<68325, 68326>>, <<68900, 68903>>,
    <<69291, 69292>>, <<69446, 69456>>, <<69506, 69509>>, <<69633, 69633>>,
    <<69688, 69702>>, <<69744, 69744>>, <<69747, 69748>>, <<69759, 69761>>,
    <<69811, 69814>>, <<69817, 69818>>, <<69821, 69821>>, <<69826, 69826>>,
    <<69837, 69837>>, <<69888, 69890>>, <<69927, 69931>>, <<69933, 69940>>,
    <<70003, 70003>>, <<70016, 70017>>, <<70070, 70078>>, <<70089, 70092>>,
    <<70095, 70095>>, <<70191, 70193>>, <<70196, 70196>>, <<70198, 70199>>,
    <<70206, 70206>>, <<70367, 70367>>, <<70371, 70378>>, <<70400, 70401>>,
    <<70459, 70460>>, <<70464, 70464>>, <<70502, 70508>>, <<70512, 70516>>,
    <<70712, 70719>>, <<70722, 70724>>, <<70726, 70726>>, <<70750, 70750>>,
    <<70835, 70840>>, <<70842, 70842>>, <<70847, 70848>>, <<70850, 70851>>,
    <<71090, 71093>>, <<71100, 71101>>, <<71103, 71104>>, <<71132, 71133>>,
    <<71219, 71226>>, <<71229, 71229>>, <<71231, 71232>>, <<71339, 71339>>,
    <<71341, 71341>>, <<71344, 71349>>, <<71351, 71351>>, <<71453, 71455>>,
    <<71458, 71461>>, <<71463, 71467>>, <<71727, 71735>>, <<71737, 71738>>,
    <<71995, 71996>>, <<71998, 71998>>, <<72003, 72003>>, <<72148, 72151>>,
    <<72154, 72155>>, <<72160, 72160>>, <<72193, 72202>>, <<72243, 72248>>,
    <<72251, 72254>>, <<72263, 72263>>, <<72273, 72278>>, <<72281, 72283>>,
    <<72330, 72342>>, <<72344, 72345>>, <<72752, 72758>>, <<72760, 72765>>,
    <<72767, 72767>>, <<72850, 72871>>, <<72874, 72880>>, <<72882, 72883>>,
    <<72885, 72886>>, <<73009, 73014>>, <<73018, 73018>>, <<73020, 73021>>,
    <<73023, 73029>>, <<73031, 73031>>, <<73104, 73105>>, <<73109, 73109>>,
    <<73111, 73111>>, <<73459, 73460>>, <<78896, 78904>>, <<92912, 92916>>,
    <<92976, 92982>>, <<92992, 92995>>, <<94031, 94031>>, <<94095, 94111>>,
    <<94176, 94177>>, <<94179, 94180>>, <<110576, 110579>>, <<110581,
    110587>>, <<110589, 110590>>, <<113821, 113822>>, <<113824, 113827>>,
    <<118528, 118573>>, <<118576, 118598>>, <<119143, 119145>>, <<119155,
    119170>>, <<119173, 119179>>, <<119210, 119213>>, <<119362, 119364>>,
    <<121344, 121398>>, <<121403, 121452>>, <<121461, 121461>>, <<121476,
    121476>>, <<121499, 121503>>, <<121505, 121519>>, <<122880, 122886>>,
    <<122888, 122904>>, <<122907, 122913>>, <<122915, 122916>>, <<122918,
    122922>>, <<123184, 123197>>, <<123566, 123566>>, <<123628, 123631>>,
    <<125136, 125142>>, <<125252, 125259>>, <<127995, 127999>>, <<917505,
    917505>>, <<917536, 917631>>, <<917760, 917999>> }

Cased == UNION {r[1]..r[2] : r \in CasedRanges}

CaseIgnorable == UNION {r[1]..r[2] : r \in CaseIgnorableRanges}

\* capital sigma, and its two lower-case forms
CapitalSigma == 931

FinalSigma == 962

SmallSigma == 963

\* capital I with dot above lowers to i followed by a combining dot above
CapitalIDot == 304

LowerOfCapitalIDot == <<105, 775>>

\* the sigma at s[i] ends a word: the nearest character before it that is not
\* case-ignorable is cased, and the nearest such character after it is not
IsFinalSigma(s, i) ==
  LET before == {j \in 1..(i - 1) : s[j] \notin CaseIgnorable}
      after  == {j \in (i + 1)..Len(s) : s[j] \notin CaseIgnorable}
  IN  /\ before # {}
      /\ s[CHOOSE j \in before : \A k \in before : k <= j] \in Cased
      /\ \/ after = {}
         \/ s[CHOOSE j \in after : \A k \in after : j <= k] \notin Cased

\* the lower case of the character s[i]
LowerAt(s, i) ==
  IF s[i] = CapitalSigma
  THEN <<IF IsFinalSigma(s, i) THEN FinalSigma ELSE SmallSigma>>
  ELSE IF s[i] = CapitalIDot THEN LowerOfCapitalIDot
  ELSE IF s[i] \in DOMAIN UpperToLower THEN <<UpperToLower[s[i]]>>
  ELSE <<s[i]>>

RECURSIVE LowerFrom(_, _)
LowerFrom(s, i) == IF i > Len(s) THEN <<>> ELSE LowerAt(s, i) \o LowerFrom(s, i + 1)

\* str.lower()
lower(s) == LowerFrom(s, 1)

\* the digit zero of every script; the digits one to nine follow it
DigitZeros ==
  {
    48, 1632, 1776, 1984, 2406, 2534, 2662, 2790, 2918, 3046, 3174, 3302,
    3430, 3558, 3664, 3792, 3872, 4160, 4240, 6112, 6160, 6470, 6608, 6784,
    6800, 6992, 7088, 7232, 7248, 42528, 43216, 43264, 43472, 43504, 43600,
    44016, 65296, 66720, 68912, 69734, 69872, 69942, 70096, 70384, 70736,
    70864, 71248, 71360, 71472, 71904, 72016, 72784, 73040, 73120, 92768,
    92864, 93008, 120782, 120792, 120802, 120812, 120822, 123200, 123632,
    125264, 130032 }

Digits == UNION {z..(z + 9) : z \in DigitZeros}

DigitValue == [c \in Digits |-> c - (CHOOSE z \in DigitZeros : c \in z..(z + 9))]

PlusSign == 43

MinusSign == 45

Underscore == 95

\* int() refuses a literal with more digits than this
MaxStrDigits == 4300

\* the text after an optional sign
Unsigned(s) == IF s # <<>> /\ s[1] \in {PlusSign, MinusSign} THEN Tail(s) ELSE s

\* int(s) accepts s: white space around, an optional sign, then digits, single
\* underscores allowed between digits, and no more than MaxStrDigits digits
IsIntLiteral(s) ==
  LET b == Unsigned(RStrip(LStrip(s, IntWhitespace), IntWhitespace))
  IN  /\ b # <<>>
      /\ \A i \in 1..Len(b) : b[i] \in Digits \cup {Underscore}
      /\ b[1] \in Digits
      /\ b[Len(b)] \in Digits
      /\ \A i \in 1..(Len(b) - 1) : ~(b[i] = Underscore /\ b[i + 1] = Underscore)
      /\ Cardinality({i \in 1..Len(b) : b[i] \in Digits}) <= MaxStrDigits

RECURSIVE DecimalValue(_)
DecimalValue(b) ==
  IF b = <<>> THEN 0
  ELSE IF b[Len(b)] = Underscore THEN DecimalValue(SubSeq(b, 1, Len(b) - 1))
  ELSE 10 * DecimalValue(SubSeq(b, 1, Len(b) - 1)) + DigitValue[b[Len(b)]]

\* int(s): the number, or ValueError
py_int(s) ==
  LET t == RStrip(LStrip(s, IntWhitespace), IntWhitespace)
  IN  IF ~IsIntLiteral(s) THEN [exc |-> "ValueError", value |-> 0]
      ELSE [exc |-> None,
            value |-> IF t[1] = MinusSign THEN 0 - DecimalValue(Unsigned(t))
                      ELSE DecimalValue(Unsigned(t))]

\* seq[i] of a Python list: indices count from 0, negative ones from the end
PyIndex(seq, i) ==
  IF 0 <= i /\ i < Len(seq) THEN [exc |-> None, value |-> seq[i + 1]]
  ELSE IF 0 - Len(seq) <= i /\ i < 0 THEN [exc |-> None, value |-> seq[Len(seq) + i + 1]]
  ELSE [exc |-> "IndexError", value |-> None]

\* the base class of each exception class that occurs
BaseOf ==
  ("UnicodeDecodeError" :> "ValueError") @@ ("ValueError" :> "Exception") @@
  ("IndexError" :> "Exception") @@ ("EOFError" :> "Exception") @@
  ("Exception" :> "BaseException") @@ ("KeyboardInterrupt" :> "BaseException")

RECURSIVE IsInstance(_, _)
IsInstance(exc, cls) ==
  \/ exc = cls
  \/ exc \in DOMAIN BaseOf /\ IsInstance(BaseOf[exc], cls)

(***************************************************************************)
(* The command-line program                                                *)
(***************************************************************************)
KimuraPosition ==
  [id |-> "kimura_position", name |-> "Kimura Position", default_drills |-> <<"Kimura Finish Drill">>]

SweepPosition ==
  [id |-> "sweep_position", name |-> "Sweep Transition", default_drills |-> <<"Kimura Sweep Drill">>]

Mount ==
  [id |-> "mount", name |-> "Mount", default_drills |-> <<"Mount Maintenance Drill">>]

\* a bug variant: mount is a destination but is never added as a position
SamplePositionsWithoutMount ==
  {p \in PositionInputs : p.name # "Closed Guard II"} \cup
  {KimuraPosition, SweepPosition}

SamplePositions ==
  {p \in PositionInputs : p.name # "Closed Guard II"} \cup
  {KimuraPosition, SweepPosition, Mount}

T6 == Tr("broken_posture", "kimura_position", "T6", 60, "D6")
T7 == Tr("kimura_position", "sweep_position", "T7", 50, "D7")
T8 == Tr("sweep_position", "mount", "T8", 80, "D8")

create_sample_graph == Populated(SamplePositions, <<T1, T2, T6, T7, T8>>)

\* what the user types at a prompt
RawInputs ==
  {
    <<113, 117, 105, 116>>,  \* quit
    <<101, 120, 105, 116>>,  \* exit
    <<113>>,  \* q
    <<32, 81, 117, 105, 116, 32>>,  \*  Quit 
    <<69, 88, 73, 84>>,  \* EXIT
    <<81, 9>>,  \* Q, tab
    <<113, 160>>,  \* q, no-break space
    <<12, 113, 117, 105, 116>>,  \* form feed, quit
    <<113, 117, 105, 116, 32, 120>>,  \* quit x
    <<113, 113>>,  \* qq
    <<120>>,  \* x
    <<65329>>,  \* fullwidth Q
    <<75>>,  \* K
    <<>>,  \* the empty text
    <<32>>,  \* one blank
    <<45>>,  \* -
    <<48>>,  \* 0
    <<49>>,  \* 1
    <<50>>,  \* 2
    <<51>>,  \* 3
    <<52>>,  \* 4
    <<53>>,  \* 5
    <<49, 48>>,  \* 10
    <<45, 49>>,  \* -1
    <<45, 50>>,  \* -2
    <<43, 49>>,  \* +1
    <<32, 50, 32>>,  \*  2 
    <<48, 49>>,  \* 01
    <<11, 50>>,  \* vertical tab, 2
    <<28, 49>>,  \* file separator, 1
    <<1634>>,  \* arabic-indic digit two
    <<49, 46, 48>>,  \* 1.0
    <<49, 95, 48>>,  \* 1_0
    <<95, 49>>,  \* _1
    <<49, 32, 50>> }  \* 1 2

\* the exceptions input() raises: end of input, undecodable bytes, Ctrl-C
InputExceptions == {"EOFError", "UnicodeDecodeError", "KeyboardInterrupt"}

\* the outcomes of one input() call
InputOutcomes ==
  {[exc |-> None, text |-> r] : r \in RawInputs} \cup
  {[exc |-> e, text |-> <<>>] : e \in InputExceptions}

QuitWords == {<<113, 117, 105, 116>>, <<101, 120, 105, 116>>, <<113>>}

\* a bug variant: 0 passes the range check
InRangeFromZero(choice_num, max_choice) == 0 <= choice_num /\ choice_num <= max_choice

\* get_user_choice: 1 <= choice_num <= max_choice
InRange(choice_num, max_choice) == 1 <= choice_num /\ choice_num <= max_choice

\* get_user_choice: one pass through the loop body on the text input()
\* returned.  returns = FALSE is the next pass (a message was printed).
ChoiceAttempt(raw, max_choice) ==
  LET choice == lower(strip(raw))
  IN  IF choice \in QuitWords THEN [returns |-> TRUE, value |-> -1, message |-> None]
      ELSE IF py_int(choice).exc # None
           THEN [returns |-> FALSE, value |-> 0, message |-> "valid number"]
      ELSE IF InRange(py_int(choice).value, max_choice)
           THEN [returns |-> TRUE, value |-> py_int(choice).value, message |-> None]
      ELSE [returns |-> FALSE, value |-> 0, message |-> "between"]

\* a bug variant: every exception ends the process quietly with status 0
main_except_quiet(exc) ==
  [status |-> 0, reported |-> FALSE, traceback |-> FALSE]

\* main: the except clauses, in their order; an exception neither clause
\* matches leaves the interpreter with a traceback
main_except(exc) ==
  IF IsInstance(exc, "KeyboardInterrupt")
  THEN [status |-> 0, reported |-> FALSE, traceback |-> FALSE]
  ELSE IF IsInstance(exc, "Exception")
  THEN [status |-> 1, reported |-> TRUE, traceback |-> FALSE]
  ELSE [status |-> 1, reported |-> FALSE, traceback |-> TRUE]

\* the program after exc left run_interactive_session
Raised(exc) ==
  [cli EXCEPT !.pc = "exit", !.raised = exc,
              !.status = main_except(exc).status,
              !.reported = main_except(exc).reported,
              !.traceback = main_except(exc).traceback]

\* a bug variant: the choice is used as the list index
SelectedZeroBased(ts, choice) == PyIndex(ts, choice)

\* run_interactive_session: transitions[choice - 1]
SelectedTransition(ts, choice) == PyIndex(ts, choice - 1)

\* transitions taken so far by the program's session
CliWalkLength == IF sessions = <<>> THEN 0 ELSE Len(sessions[1].history)

\* run_interactive_session, top of the loop: the current position is looked
\* up and shown, or the loop is left
cli_show_position ==
  /\ cli.pc = "loop"
  /\ last' = [op |-> "get_current_position", self |-> 1, arg |-> None,
              ret |-> get_current_position(sessions[1]), old |-> None]
  /\ cli' = [cli EXCEPT !.pc = IF get_current_position(sessions[1]) = NoPosition
                                THEN "summary" ELSE "menu"]
  /\ sessions' = [sessions EXCEPT ![1] = SessionAfterQuery(sessions[1])]
  /\ BjjBecomes(LookupLeaves(Bjj, sessions[1].current_position))

\* a bug variant: a position with no action does not leave the loop
cli_show_actions_continue ==
  /\ cli.pc = "menu"
  /\ last' = [op |-> "get_available_actions", self |-> 1, arg |-> None,
              ret |-> get_available_actions(sessions[1]), old |-> None]
  /\ cli' = IF get_available_actions(sessions[1]) = <<>>
            THEN [cli EXCEPT !.pc = "loop"]
            ELSE [cli EXCEPT !.pc = "prompt",
                             !.transitions = get_available_actions(sessions[1]),
                             !.max_choice = Len(get_available_actions(sessions[1]))]
  /\ sessions' = [sessions EXCEPT ![1] = SessionAfterQuery(sessions[1])]
  /\ BjjBecomes(LookupLeaves(Bjj, sessions[1].current_position))

\* run_interactive_session: the menu is computed and shown, or the loop is
\* left at a position with no action
cli_show_actions ==
  /\ cli.pc = "menu"
  /\ last' = [op |-> "get_available_actions", self |-> 1, arg |-> None,
              ret |-> get_available_actions(sessions[1]), old |-> None]
  /\ cli' = IF get_available_actions(sessions[1]) = <<>>
            THEN [cli EXCEPT !.pc = "summary"]
            ELSE [cli EXCEPT !.pc = "prompt",
                             !.transitions = get_available_actions(sessions[1]),
                             !.max_choice = Len(get_available_actions(sessions[1]))]
  /\ sessions' = [sessions EXCEPT ![1] = SessionAfterQuery(sessions[1])]
  /\ BjjBecomes(LookupLeaves(Bjj, sessions[1].current_position))

\* get_user_choice(max_choice): one input() and one pass through the loop
get_user_choice(o) ==
  /\ cli.pc = "prompt"
  /\ last' = [op |-> "get_user_choice", self |-> 1, arg |-> o,
              ret |-> IF o.exc = None THEN ChoiceAttempt(o.text, cli.max_choice)
                      ELSE [returns |-> FALSE, value |-> 0, message |-> o.exc],
              old |-> None]
  /\ IF o.exc # None
     THEN cli' = IF IsInstance(o.exc, "ValueError") THEN cli ELSE Raised(o.exc)
     ELSE LET a == ChoiceAttempt(o.text, cli.max_choice)
          IN  /\ a.returns /\ a.value >= 1 => CliWalkLength < MaxCliSteps
              /\ cli' = IF a.returns
                        THEN [cli EXCEPT !.pc = "chosen", !.choice = a.value]
                        ELSE cli
  /\ UNCHANGED <<positions, transitions, graph, sessions>>

\* run_interactive_session: the user left at the menu
cli_quit_at_menu ==
  /\ cli.pc = "chosen"
  /\ cli.choice = -1
  /\ cli' = [cli EXCEPT !.pc = "summary"]
  /\ UNCHANGED <<positions, transitions, graph, sessions, last>>

\* run_interactive_session: the chosen transition is taken and its result
\* shown
cli_take_action ==
  /\ cli.pc = "chosen"
  /\ cli.choice # -1
  /\ LET sel == SelectedTransition(cli.transitions, cli.choice)
     IN  IF sel.exc # None
         THEN /\ cli' = Raised(sel.exc)
              /\ UNCHANGED <<positions, transitions, graph, sessions, last>>
         ELSE /\ sessions' = SessionsAfterTake(sessions, 1, sel.value)
              /\ last' = [op |-> "take_action", self |-> 1, arg |-> sel.value,
                          ret |-> TakeActionResult(sel.value), old |-> None]
              /\ cli' = [cli EXCEPT !.pc = IF TakeActionResult(sel.value)[1] = NoPosition
                                            THEN "summary" ELSE "continue"]
              /\ BjjBecomes(LookupLeaves(Bjj, sel.value.to_position))

\* run_interactive_session: the prompt after a step
cli_continue(o) ==
  /\ cli.pc = "continue"
  /\ last' = [op |-> "continue", self |-> 1, arg |-> o, ret |-> None, old |-> None]
  /\ cli' = IF o.exc # None THEN Raised(o.exc)
            ELSE IF lower(strip(o.text)) \in QuitWords
                 THEN [cli EXCEPT !.pc = "summary"]
                 ELSE [cli EXCEPT !.pc = "loop"]
  /\ UNCHANGED <<positions, transitions, graph, sessions>>

\* run_interactive_session: the summary is shown; main returns and the
\* process ends with status 0
cli_summary ==
  /\ cli.pc = "summary"
  /\ last' = [op |-> "get_session_summary", self |-> 1, arg |-> None,
              ret |-> get_session_summary(sessions[1]), old |-> None]
  /\ cli' = [cli EXCEPT !.pc = "exit", !.status = 0]
  /\ sessions' = [sessions EXCEPT ![1] = SessionAfterQuery(sessions[1])]
  /\ UNCHANGED <<positions, transitions, graph>>

GetUserChoice == \E o \in InputOutcomes : get_user_choice(o)

Continue == \E o \in InputOutcomes : cli_continue(o)

\* run_interactive_session up to the loop
InitCli ==
  /\ positions = create_sample_graph.positions
  /\ transitions = create_sample_graph.transitions
  /\ graph = create_sample_graph.graph
  /\ sessions = <<NarrativeSession("closed_guard")>>
  /\ last = [op |-> "start_session", self |-> 1, arg |-> "closed_guard",
             ret |-> None, old |-> None]
  /\ cli = [NoCli EXCEPT !.pc = "loop"]

NextCli ==
  \/ cli_show_position
  \/ cli_show_actions
  \/ GetUserChoice
  \/ cli_quit_at_menu
  \/ cli_take_action
  \/ Continue
  \/ cli_summary

SpecCli == InitCli /\ [][NextCli]_vars

\* the statements of the program that do not wait for the user
ProgramStep ==
  \/ cli_show_position
  \/ cli_show_actions
  \/ cli_quit_at_menu
  \/ cli_take_action
  \/ cli_summary

\* the program runs on: each statement is followed by the next.  An input()
\* call returns only when the user answers, which nothing here assumes.
SpecCliFair == SpecCli /\ WF_vars(ProgramStep)

(***************************************************************************)
(* SpecPrompt: get_user_choice on its own, for every menu size             *)
(***************************************************************************)
InitPrompt ==
  \E m \in 1..MaxChoice :
    /\ positions = EmptyBjj.positions
    /\ transitions = EmptyBjj.transitions
    /\ graph = EmptyBjj.graph
    /\ sessions = <<>>
    /\ last = NoCall
    /\ cli = [NoCli EXCEPT !.pc = "prompt", !.max_choice = m]

NextPrompt == GetUserChoice

SpecPrompt == InitPrompt /\ [][NextPrompt]_vars

(***************************************************************************)
(* Helpers of the properties                                               *)
(***************************************************************************)
Count(seq, x) == Cardinality({i \in 1..Len(seq) : seq[i] = x})

Distinct(seq) == \A i, j \in 1..Len(seq) : i # j => seq[i] # seq[j]

IndexIn(seq, x) == CHOOSE i \in 1..Len(seq) : seq[i] = x

IsIn(seq, x) == \E i \in 1..Len(seq) : seq[i] = x

\* the transitions added with source k, in the order of their add_transition calls
AddedFrom(k) == SelectSeq(transitions, LAMBDA t : t.from_position = k)

IsPermutationOf(a, b) ==
  /\ Len(a) = Len(b)
  /\ \A i \in 1..Len(b) : Count(a, b[i]) = Count(b, b[i])

(***************************************************************************)
(* Position graph                                                          *)
(***************************************************************************)
\* C1 (as claimed): when every added Transition is a different object,
\* get_transitions_from(k) holds every transition added with source k exactly
\* once, for every key k, two transitions with the same (source, destination)
\* included.
C1_EveryAddedTransitionReturned ==
  Distinct(transitions) =>
    \A k \in Keys : \A t \in TransitionInputs :
      Count(get_transitions_from(graph, k), t) = Count(AddedFrom(k), t)

\* C2 (as claimed): get_transitions_from(k) lists its transitions in the order
\* of their add_transition calls: of two returned transitions the one added
\* first comes first.
C2_ReturnedInInsertionOrder ==
  Distinct(transitions) =>
    \A k \in Keys :
      LET r == get_transitions_from(graph, k)
      IN  \A i, j \in 1..Len(r) :
            (i < j /\ IsIn(transitions, r[i]) /\ IsIn(transitions, r[j]))
              => IndexIn(transitions, r[i]) < IndexIn(transitions, r[j])

\* C7: add_position(p) is last-write-wins by key: afterwards get_position(p.id)
\* is p, the key set is the old key set plus p.id (one entry per key), and
\* every other key resolves as before.
C7_LastWriteWins ==
  [][last'.op = "add_position" =>
       LET p == last'.arg
       IN  /\ get_position(positions', p.id) = p
           /\ DOMAIN positions' = DOMAIN positions \cup {p.id}
           /\ Cardinality(DOMAIN positions') =
                Cardinality(DOMAIN positions) + (IF p.id \in DOMAIN positions THEN 0 ELSE 1)
           /\ \A k \in Keys \ {p.id} :
                get_position(positions', k) = get_position(positions, k)]_vars

\* C7 witness: an add_position has just overwritten a different entry of the
\* same key, and the lookup yields the new one.
C7_Witness ==
  /\ last.op = "add_position"
  /\ last.old # NoPosition
  /\ last.old # last.arg
  /\ get_position(positions, last.arg.id) = last.arg
  /\ Cardinality(DOMAIN positions) = 2

\* C8: add_position(p), an overwrite included, leaves get_transitions_from(k)
\* unchanged for every key k, and leaves the global transition list unchanged.
C8_AddPositionKeepsEdges ==
  [][last'.op = "add_position" =>
       /\ \A k \in Keys :
            get_transitions_from(graph', k) = get_transitions_from(graph, k)
       /\ transitions' = transitions]_vars

\* C8 witness: a position was overwritten while its key is the source of a
\* returned transition and the destination of a returned transition.
C8_Witness ==
  /\ last.op = "add_position"
  /\ last.old # NoPosition
  /\ last.old # last.arg
  /\ get_transitions_from(graph, last.arg.id) # <<>>
  /\ \E k \in Keys : \E i \in 1..Len(get_transitions_from(graph, k)) :
       /\ get_transitions_from(graph, k)[i].to_position = last.arg.id
       /\ get_transitions_from(graph, k)[i].from_position = k

\* C9 (as claimed): every added transition with a source or destination key
\* that is not a position is returned by get_transitions_from(its source).
C9_DanglingTransitionReturned ==
  Distinct(transitions) =>
    \A i \in 1..Len(transitions) :
      LET t == transitions[i]
      IN  (t.to_position \notin DOMAIN positions \/ t.from_position \notin DOMAIN positions)
            => IsIn(get_transitions_from(graph, t.from_position), t)

(***************************************************************************)
(* Session                                                                 *)
(***************************************************************************)
\* C3: get_available_actions() is a permutation of
\* get_transitions_from(current key), in descending order of probability,
\* and transitions of equal probability keep the relative order they have in
\* get_transitions_from.
C3_AvailableActionsSorted ==
  \A sid \in DOMAIN sessions :
    LET g == get_transitions_from(graph, sessions[sid].current_position)
        a == get_available_actions(sessions[sid])
    IN  /\ IsPermutationOf(a, g)
        /\ \A i, j \in 1..Len(a) : i < j => a[i].probability >= a[j].probability
        /\ \A i, j \in 1..Len(a) :
             (i < j /\ a[i].probability = a[j].probability)
               => IndexIn(g, a[i]) < IndexIn(g, a[j])

\* C3 witness: insertion order T2 (0.3), T1 (0.7), T3 (0.7) is presented as
\* T1, T3, T2.
C3_Witness ==
  \E sid \in DOMAIN sessions :
    /\ get_transitions_from(graph, sessions[sid].current_position) = <<T2, T1, T3>>
    /\ last.op = "get_available_actions"
    /\ last.ret = <<T1, T3, T2>>

\* C4: take_action(t), for any t, appends (current key before the call,
\* t.action) to the history, appends t's drill to the rewards log iff t has
\* one, makes t.to_position the current key, and returns
\* (get_position(t.to_position), t's drill).
C4_TakeActionEffects ==
  [][last'.op = "take_action" =>
       LET t  == last'.arg
           s  == sessions[last'.self]
           s2 == sessions'[last'.self]
       IN  /\ s2.history = Append(s.history, <<s.current_position, t.action>>)
           /\ s2.drills_earned =
                (IF t.drill_prescription # None
                 THEN Append(s.drills_earned, t.drill_prescription)
                 ELSE s.drills_earned)
           /\ s2.current_position = t.to_position
           /\ last'.ret = <<get_position(positions, t.to_position), t.drill_prescription>>
           /\ <<positions', transitions', graph'>> = <<positions, transitions, graph>>]_vars

\* C4 witness: a transition was taken whose source is not the key the session
\* was on and whose destination is not a position; position and drill are
\* both absent in the result.
C4_Witness ==
  /\ last.op = "take_action"
  /\ LET s == sessions[last.self]
     IN  /\ s.history[Len(s.history)][1] # last.arg.from_position
         /\ s.current_position \notin DOMAIN positions
  /\ last.ret = <<NoPosition, None>>

\* C5: a fresh session reports positions_visited = 1 and no actions; every
\* take_action raises positions_visited by one and appends the taken
\* transition's label to actions_taken (so after n calls: n + 1 and n labels
\* in the order taken).
C5_HistoryGrowth ==
  /\ [](\A sid \in DOMAIN sessions :
          (last.op = "start_session" /\ last.self = sid) =>
            /\ get_session_summary(sessions[sid]).positions_visited = 1
            /\ get_session_summary(sessions[sid]).actions_taken = <<>>)
  /\ [][last'.op = "take_action" =>
          LET a  == get_session_summary(sessions[last'.self])
              a2 == get_session_summary(sessions'[last'.self])
          IN  /\ a2.positions_visited = a.positions_visited + 1
              /\ a2.actions_taken = Append(a.actions_taken, last'.arg.action)
              /\ Len(a2.actions_taken) = a2.positions_visited - 1]_vars

\* C5 witness: two actions taken, the first a self-loop; the summary reports
\* three positions visited.
C5_Witness ==
  \E sid \in DOMAIN sessions :
    /\ last.op = "get_session_summary"
    /\ last.ret.positions_visited = 3
    /\ last.ret.actions_taken = <<"T2", "T1">>
    /\ sessions[sid].history[1][1] = "closed_guard"
    /\ sessions[sid].history[2][1] = "closed_guard"

\* C6: a take_action whose transition has no drill leaves total_drills and
\* drills unchanged; one whose transition has a drill raises total_drills by
\* exactly one and appends that drill to drills, also when already earned.
C6_DrillAccumulation ==
  [][last'.op = "take_action" =>
       LET a  == get_session_summary(sessions[last'.self])
           a2 == get_session_summary(sessions'[last'.self])
           d  == last'.arg.drill_prescription
       IN  IF d = None
           THEN a2.total_drills = a.total_drills /\ a2.drills = a.drills
           ELSE /\ a2.total_drills = a.total_drills + 1
                /\ a2.drills = Append(a.drills, d)
                /\ a2.drills[Len(a2.drills)] = d]_vars

\* C6 witness: the same drill was earned twice and is listed twice.
C6_Witness ==
  \E sid \in DOMAIN sessions :
    /\ last.op = "take_action"
    /\ last.arg.drill_prescription = "D1"
    /\ get_session_summary(sessions[sid]).drills = <<"D1", "D1">>
    /\ get_session_summary(sessions[sid]).total_drills = 2

\* a fresh session whose key is not in the position set
DanglingStart(s) ==
  s.history = <<>> /\ s.current_position \notin DOMAIN positions

\* C10 (as claimed): on a fresh session whose key is not a position,
\* get_current_position() is absent and get_available_actions() and
\* get_transitions_from(key) are empty.
C10_DanglingStartHasNoActions ==
  \A sid \in DOMAIN sessions :
    DanglingStart(sessions[sid]) =>
      /\ get_current_position(sessions[sid]) = NoPosition
      /\ get_available_actions(sessions[sid]) = <<>>
      /\ get_transitions_from(graph, sessions[sid].current_position) = <<>>

\* C10 (amended): on a fresh session whose key is not a position,
\* get_current_position() is absent; get_available_actions() and
\* get_transitions_from(key) are empty when no transition with that key as
\* its source has been added.
C10_DanglingStart ==
  \A sid \in DOMAIN sessions :
    DanglingStart(sessions[sid]) =>
      /\ get_current_position(sessions[sid]) = NoPosition
      /\ AddedFrom(sessions[sid].current_position) = <<>> =>
           /\ get_available_actions(sessions[sid]) = <<>>
           /\ get_transitions_from(graph, sessions[sid].current_position) = <<>>

\* C10 witness: the session starts on a key that is no position and is known
\* to the graph only as a destination; the actions asked for are empty.
C10_Witness ==
  \E sid \in DOMAIN sessions :
    /\ DanglingStart(sessions[sid])
    /\ nx_has_node(graph, sessions[sid].current_position)
    /\ AddedFrom(sessions[sid].current_position) = <<>>
    /\ last.op = "get_available_actions"
    /\ last.ret = <<>>

(***************************************************************************)
(* Lookups                                                                 *)
(***************************************************************************)
\* C11: get_transitions_from(k) is the empty sequence whenever no transition
\* with source k has been added: k is a position without outgoing edges, k
\* is only a destination, or k was never mentioned.
C11_NoOutgoingIsEmpty ==
  \A k \in QueryKeys :
    AddedFrom(k) = <<>> =>
      /\ get_transitions_from(graph, k) = <<>>
      /\ (last.op = "get_transitions_from" /\ last.arg = k) => last.ret = <<>>

\* C11 witness: closed_guard is a position without outgoing edges, mount is
\* only the destination of an added transition, "nonexistent" is unknown to
\* the graph; the lookup of mount has just returned the empty sequence.
C11_Witness ==
  /\ "closed_guard" \in DOMAIN positions
  /\ AddedFrom("closed_guard") = <<>>
  /\ \E i \in 1..Len(transitions) : transitions[i].to_position = "mount"
  /\ AddedFrom("mount") = <<>>
  /\ ~nx_has_node(graph, "nonexistent")
  /\ last.op = "get_transitions_from"
  /\ last.arg = "mount"
  /\ last.ret = <<>>

\* C12: get_position(k) returns a position exactly for the keys add_position
\* was called with: none before the first call; add_position(p) makes p.id
\* resolve and changes no other key; no other call changes any lookup.  A key
\* known only as the source or destination of transitions resolves to absent,
\* and so does get_current_position() of a session whose current key it is.
C12_PositionIffAdded ==
  /\ [](last = NoCall => \A k \in QueryKeys : get_position(positions, k) = NoPosition)
  /\ [][last'.op = "add_position" =>
          /\ get_position(positions', last'.arg.id) = last'.arg
          /\ last'.arg # NoPosition
          /\ \A k \in QueryKeys \ {last'.arg.id} :
               get_position(positions', k) = get_position(positions, k)]_vars
  /\ [][last'.op # "add_position" =>
          \A k \in QueryKeys :
            get_position(positions', k) = get_position(positions, k)]_vars
  /\ [](\A k \in QueryKeys :
          /\ (get_position(positions, k) = NoPosition) <=> (k \notin DOMAIN positions)
          /\ (nx_has_node(graph, k) /\ k \notin DOMAIN positions) =>
               /\ get_position(positions, k) = NoPosition
               /\ get_current_position(NarrativeSession(k)) = NoPosition
          /\ (last.op = "get_position" /\ last.arg = k) =>
               last.ret = get_position(positions, k))

\* C12 witness: broken_posture is the destination of one added transition and
\* the source of another, no add_position named it, another key has a
\* position, and its lookup has just returned absent.
C12_Witness ==
  /\ \E i \in 1..Len(transitions) : transitions[i].to_position = "broken_posture"
  /\ \E i \in 1..Len(transitions) : transitions[i].from_position = "broken_posture"
  /\ "broken_posture" \notin DOMAIN positions
  /\ "closed_guard" \in DOMAIN positions
  /\ last.op = "get_position"
  /\ last.arg = "broken_posture"
  /\ last.ret = NoPosition
  /\ get_current_position(NarrativeSession("broken_posture")) = NoPosition

(***************************************************************************)
(* End-to-end scenario                                                     *)
(***************************************************************************)
\* the graph holds the two transitions T1 and T2 and the position closed_guard
ScenarioSeeded ==
  /\ "closed_guard" \in DOMAIN positions
  /\ transitions \in {<<T1, T2>>, <<T2, T1>>}

\* take_action(T1) has just returned on a session started at closed_guard
TookT1FromStart(sid) ==
  /\ last.op = "take_action"
  /\ last.self = sid
  /\ last.arg = T1
  /\ sessions[sid].history = <<<<"closed_guard", "T1">>>>

\* C13 (as claimed): with the position closed_guard as the only position and
\* the transitions T1 and T2, a session started at closed_guard is offered
\* [T1, T2]; take_action(T1) returns (the position broken_posture, D1), and
\* the summary then reports 2 positions visited and the one drill D1.
C13_EndToEndAsClaimed ==
  \A sid \in DOMAIN sessions :
    (ScenarioSeeded /\ DOMAIN positions = {"closed_guard"}) =>
      /\ sessions[sid] = NarrativeSession("closed_guard") =>
           get_available_actions(sessions[sid]) = <<T1, T2>>
      /\ TookT1FromStart(sid) =>
           /\ last.ret[1].id = "broken_posture"
           /\ last.ret[2] = "D1"
           /\ get_session_summary(sessions[sid]).positions_visited = 2
           /\ get_session_summary(sessions[sid]).total_drills = 1
           /\ get_session_summary(sessions[sid]).drills = <<"D1">>

\* C13 (amended): with the position closed_guard and the transitions T1 and
\* T2, a session started at closed_guard is offered [T1, T2]; take_action(T1)
\* returns D1 together with the position broken_posture when that position
\* was seeded too and with no position when it was not; the summary then
\* reports 2 positions visited and the one drill D1.
C13_EndToEnd ==
  \A sid \in DOMAIN sessions :
    ScenarioSeeded =>
      /\ sessions[sid] = NarrativeSession("closed_guard") =>
           get_available_actions(sessions[sid]) = <<T1, T2>>
      /\ TookT1FromStart(sid) =>
           /\ IF "broken_posture" \in DOMAIN positions
              THEN last.ret[1] \in PositionInputs /\ last.ret[1].id = "broken_posture"
              ELSE last.ret[1] = NoPosition
           /\ last.ret[2] = "D1"
           /\ get_session_summary(sessions[sid]).positions_visited = 2
           /\ get_session_summary(sessions[sid]).total_drills = 1
           /\ get_session_summary(sessions[sid]).drills = <<"D1">>

\* C13 witness: both positions seeded, T1 taken from the start; the call
\* returned the position broken_posture and D1.
C13_Witness ==
  \E sid \in DOMAIN sessions :
    /\ ScenarioSeeded
    /\ TookT1FromStart(sid)
    /\ last.ret[1].id = "broken_posture"
    /\ last.ret[2] = "D1"
    /\ get_session_summary(sessions[sid]).positions_visited = 2
    /\ get_session_summary(sessions[sid]).drills = <<"D1">>

(***************************************************************************)
(* Frame properties of the session operations                              *)
(***************************************************************************)
IsPrefix(a, b) == Len(a) <= Len(b) /\ SubSeq(b, 1, Len(a)) = a

IsQuery(op) ==
  op \in {"get_current_position", "get_available_actions", "get_session_summary"}

\* C17: the history and the rewards log of a session only grow at the end:
\* across every operation on it (start_session makes a new session and is
\* not one) the old history is a prefix of the new one, and so for the
\* drills, in the object and in the summary.
C17_AppendOnlyLogs ==
  [][last'.op # "start_session" =>
       \A sid \in DOMAIN sessions :
         /\ IsPrefix(sessions[sid].history, sessions'[sid].history)
         /\ IsPrefix(sessions[sid].drills_earned, sessions'[sid].drills_earned)
         /\ IsPrefix(get_session_summary(sessions[sid]).drills,
                     get_session_summary(sessions'[sid]).drills)
         /\ IsPrefix(get_session_summary(sessions[sid]).actions_taken,
                     get_session_summary(sessions'[sid]).actions_taken)]_vars

\* C17 witness: two actions were taken, the first earned a drill, the second
\* had none; both logs still start with the first entry.
C17_Witness ==
  \E sid \in DOMAIN sessions :
    /\ last.op = "take_action"
    /\ last.arg.drill_prescription = None
    /\ Len(sessions[sid].history) = 2
    /\ sessions[sid].history[1] = <<"closed_guard", "T1">>
    /\ sessions[sid].drills_earned = <<"D1">>

\* C18: no session operation changes the graph: positions, the global
\* transition list, the edge graph and get_transitions_from(k) for every k
\* (contents and order) are the same after get_current_position,
\* get_available_actions, take_action and get_session_summary.
C18_SessionLeavesGraph ==
  [][(IsQuery(last'.op) \/ last'.op = "take_action") =>
       /\ positions' = positions
       /\ transitions' = transitions
       /\ graph' = graph
       /\ \A k \in QueryKeys :
            /\ get_transitions_from(graph', k) = get_transitions_from(graph, k)
            /\ get_position(positions', k) = get_position(positions, k)]_vars

\* C18 witness: the offered actions are in another order than the stored
\* edges, and the stored edges are still in insertion order afterwards.
C18_Witness ==
  \E sid \in DOMAIN sessions :
    /\ last.op = "get_available_actions"
    /\ last.self = sid
    /\ last.ret = <<T1, T2>>
    /\ get_transitions_from(graph, sessions[sid].current_position) = <<T2, T1>>
    /\ transitions = <<T2, T1>>

\* C19: get_current_position, get_available_actions and get_session_summary
\* leave every session unchanged (current key, history, rewards log), each
\* returns what the state determines, and so all three would return the same
\* after the call as before it.
C19_QueriesReadOnly ==
  [][IsQuery(last'.op) =>
       /\ sessions' = sessions
       /\ \A sid \in DOMAIN sessions :
            /\ get_position(positions', sessions'[sid].current_position)
                 = get_current_position(sessions[sid])
            /\ SortedByProbability(
                 get_transitions_from(graph', sessions'[sid].current_position))
                 = get_available_actions(sessions[sid])
            /\ get_session_summary(sessions'[sid]) = get_session_summary(sessions[sid])
       /\ (last.op = last'.op /\ last.self = last'.self) => last'.ret = last.ret]_vars

\* C19 witness: a summary was asked for on a session that has a history and
\* drills, and the session still has them.
C19_Witness ==
  \E sid \in DOMAIN sessions :
    /\ last.op = "get_session_summary"
    /\ last.self = sid
    /\ last.ret.total_drills = 2
    /\ Len(sessions[sid].history) = 2
    /\ Len(sessions[sid].drills_earned) = 2
    /\ last.ret = get_session_summary(sessions[sid])

(***************************************************************************)
(* Independence of sessions                                                *)
(***************************************************************************)
\* C20: a session made by start_session(k) is (k, no history, no drills) and
\* making it leaves every other session as it was; a take_action on one
\* session leaves the current key, history and rewards log of every other
\* session unchanged, in every interleaving of the calls.
C20_SessionsIndependent ==
  /\ [](last.op = "start_session" =>
          sessions[last.self] =
            [current_position |-> last.arg, history |-> <<>>, drills_earned |-> <<>>])
  /\ [][last'.op \in {"start_session", "take_action"} =>
          \A o \in DOMAIN sessions \ {last'.self} :
            /\ sessions'[o].current_position = sessions[o].current_position
            /\ sessions'[o].history = sessions[o].history
            /\ sessions'[o].drills_earned = sessions[o].drills_earned]_vars

\* C20 witness: both sessions have walked, on different paths; the one that
\* moved last earned a drill, and the other one does not hold its entries.
C20_Witness ==
  /\ Len(sessions) = 2
  /\ last.op = "take_action"
  /\ last.self = 1
  /\ sessions[1].history = <<<<"closed_guard", "T1">>>>
  /\ sessions[1].drills_earned = <<"D1">>
  /\ sessions[2].history = <<<<"closed_guard", "T2">>, <<"closed_guard", "T2">>>>
  /\ sessions[2].drills_earned = <<"D2", "D2">>
  /\ sessions[2].current_position = "closed_guard"

(***************************************************************************)
(* The command-line program                                                *)
(***************************************************************************)
\* the history entry e is a step along an edge of the graph
IsGraphStep(e) ==
  \E j \in 1..Len(get_transitions_from(graph, e[1])) :
    get_transitions_from(graph, e[1])[j].action = e[2]

\* C14: while the program waits for or holds a menu choice, its list is the
\* session's available actions in the current state; the transition it takes
\* is entry number choice of that list (element choice - 1 of the Python list),
\* its source is the session's current key at that time, and every history
\* entry (k, a) is a step along a graph transition from k labelled a.
C14_CliTakesListedTransition ==
  /\ [](cli.pc \in {"prompt", "chosen"} =>
          cli.transitions = get_available_actions(sessions[1]))
  /\ [][cli.pc = "chosen" /\ cli.choice # -1 /\ cli'.pc # "chosen" =>
          /\ cli.choice \in 1..Len(cli.transitions)
          /\ last'.op = "take_action"
          /\ last'.arg = cli.transitions[cli.choice]
          /\ last'.arg.from_position = sessions[1].current_position
          /\ sessions'[1].history =
               Append(sessions[1].history,
                      <<sessions[1].current_position, last'.arg.action>>)]_vars
  /\ [](cli.pc # "off" =>
          \A i \in 1..Len(sessions[1].history) : IsGraphStep(sessions[1].history[i]))

\* C14 witness: the program took menu entry 2 at closed_guard, then entry 1,
\* then the only entry at broken_posture.
C14_Witness ==
  /\ cli.pc = "continue"
  /\ last.op = "take_action"
  /\ last.arg = T6
  /\ cli.choice = 1
  /\ sessions[1].history =
       <<<<"closed_guard", "T2">>, <<"closed_guard", "T1">>, <<"broken_posture", "T6">>>>
  /\ sessions[1].current_position = "kimura_position"

\* what the user means by each text: leaving, a number, or neither
QuitTexts ==
  {
    <<113, 117, 105, 116>>,  \* quit
    <<101, 120, 105, 116>>,  \* exit
    <<113>>,  \* q
    <<32, 81, 117, 105, 116, 32>>,  \*  Quit 
    <<69, 88, 73, 84>>,  \* EXIT
    <<81, 9>>,  \* Q, tab
    <<113, 160>>,  \* q, no-break space
    <<12, 113, 117, 105, 116>> }  \* form feed, quit

NumberTexts ==
  (<<48>> :> 0) @@  \* 0
  (<<49>> :> 1) @@  \* 1
  (<<50>> :> 2) @@  \* 2
  (<<51>> :> 3) @@  \* 3
  (<<52>> :> 4) @@  \* 4
  (<<53>> :> 5) @@  \* 5
  (<<49, 48>> :> 10) @@  \* 10
  (<<45, 49>> :> -1) @@  \* -1
  (<<45, 50>> :> -2) @@  \* -2
  (<<43, 49>> :> 1) @@  \* +1
  (<<32, 50, 32>> :> 2) @@  \*  2 
  (<<48, 49>> :> 1) @@  \* 01
  (<<11, 50>> :> 2) @@  \* vertical tab, 2
  (<<28, 49>> :> 1) @@  \* file separator, 1
  (<<1634>> :> 2) @@  \* arabic-indic digit two
  (<<49, 95, 48>> :> 10)  \* 1_0

\* C15: at the menu prompt with max_choice = m >= 1, a text that is neither a
\* number in 1..m nor quit/exit/q leaves the program at the prompt with
\* nothing else changed; a number in 1..m is returned as it is, quit/exit/q
\* as -1; nothing else is ever returned (not 0, not another negative number,
\* not a number above m).
C15_MenuChoiceValidated ==
  /\ [](cli.pc = "chosen" =>
          \/ cli.choice \in 1..cli.max_choice
          \/ cli.choice = -1 /\ (last.op = "get_user_choice" => last.arg.text \in QuitTexts))
  /\ [][cli.pc = "prompt" /\ last'.op = "get_user_choice" /\ last'.arg.exc = None =>
          LET raw == last'.arg.text
          IN  IF raw \in QuitTexts
              THEN cli' = [cli EXCEPT !.pc = "chosen", !.choice = -1]
              ELSE IF raw \in DOMAIN NumberTexts /\ NumberTexts[raw] \in 1..cli.max_choice
              THEN cli' = [cli EXCEPT !.pc = "chosen", !.choice = NumberTexts[raw]]
              ELSE cli' = cli /\ last'.ret.message \in {"valid number", "between"}]_vars

\* C15 witness: with three entries on the menu, the text 0 was answered by
\* the range message and the program is still at the prompt.
C15_Witness ==
  /\ cli.pc = "prompt"
  /\ cli.max_choice = 3
  /\ last.op = "get_user_choice"
  /\ last.arg.text = <<48>>
  /\ last.ret.message = "between"

\* C16: an exception that leaves run_interactive_session ends the process
\* through main's handlers, never with a traceback: a keyboard interrupt
\* with status 0, every other exception reported and with a status other
\* than 0.  End of input and a keyboard interrupt at either prompt, and
\* undecodable input at the continue prompt, leave run_interactive_session.
C16_ExceptionsEndProcess ==
  /\ [](cli.pc = "exit" /\ cli.raised # None =>
          /\ ~cli.traceback
          /\ IF cli.raised = "KeyboardInterrupt" THEN cli.status = 0
             ELSE cli.status # 0 /\ cli.reported)
  /\ [][/\ last'.op \in {"get_user_choice", "continue"}
        /\ last' # last
        /\ \/ last'.arg.exc \in {"EOFError", "KeyboardInterrupt"}
           \/ last'.op = "continue" /\ last'.arg.exc = "UnicodeDecodeError"
        => cli'.pc = "exit" /\ cli'.raised = last'.arg.exc]_vars

\* C16 witness: undecodable input at the continue prompt after one step; the
\* process ended with status 1 and the error was reported.
C16_Witness ==
  /\ cli.pc = "exit"
  /\ cli.raised = "UnicodeDecodeError"
  /\ cli.status = 1
  /\ cli.reported
  /\ last.op = "continue"
  /\ Len(sessions[1].history) = 1

(***************************************************************************)
(* Walks on the sample graph                                               *)
(***************************************************************************)
\* C21: in the program's walk on the sample graph the session's current key
\* is always a key of the position set; every take_action returns a position
\* (not None) whose id is in the position set; and the program never leaves
\* its loop through the invalid-position branch at the top of the loop or the
\* unable-to-transition branch after a step.
C21_SampleWalkStaysInPositions ==
  /\ [](cli.pc # "off" => sessions[1].current_position \in DOMAIN positions)
  /\ [](cli.pc # "off" /\ last.op = "take_action" =>
          /\ last.ret[1] # NoPosition
          /\ last.ret[1].id \in DOMAIN positions
          /\ last.ret[1].id = sessions[1].current_position)
  /\ [][cli.pc = "loop" => cli'.pc = "menu"]_vars
  /\ [][cli.pc = "chosen" /\ cli.choice # -1 => cli'.pc = "continue"]_vars

\* C21 witness: the walk took the last edge of the sample graph; take_action
\* returned the Mount position and the program went on to its continue prompt.
C21_Witness ==
  /\ cli.pc = "continue"
  /\ last.op = "take_action"
  /\ last.arg = T8
  /\ last.ret[1] = Mount
  /\ sessions[1].current_position = "mount"
  /\ Len(sessions[1].history) = 4

\* the user left: a quit word at a prompt, end of input, or an interrupt
UserQuits ==
  \/ cli.raised \in {"EOFError", "KeyboardInterrupt"}
  \/ /\ last.op \in {"get_user_choice", "continue"}
     /\ last.arg.exc = None
     /\ last.arg.text \in QuitTexts

\* an exception other than end of input or an interrupt left the session
\* (input that cannot be decoded at the continue prompt)
SessionFailed == cli.raised \notin {None, "EOFError", "KeyboardInterrupt"}

\* every input() call returns or raises: the user keeps answering
InputReturns == WF_vars(GetUserChoice) /\ WF_vars(Continue)

\* the walk is as long as the model follows it and the menu is open
WalkCapped == cli.pc = "prompt" /\ CliWalkLength >= MaxCliSteps

SelfLoopTaken == last.op = "take_action" /\ last.arg = T2

\* the loop was left at mount and the summary was produced
EndedAtMount ==
  /\ cli.pc = "exit"
  /\ cli.raised = None
  /\ sessions[1].current_position = "mount"
  /\ last.op = "get_session_summary"

MountIsTheOnlyTerminal ==
  \A k \in DOMAIN positions :
    get_available_actions(NarrativeSession(k)) = <<>> <=> k = "mount"

\* C22 as claimed: mount is the only position with no available action, and
\* a run in which the user never quits and does not take the closed_guard
\* self-loop for ever reaches mount, leaves the loop and produces the summary.
\* Read in the claim's favour: the user answers every input() call, and no
\* input fails.
C22_TerminatesAsClaimed ==
  /\ []MountIsTheOnlyTerminal
  /\ (/\ []~UserQuits
      /\ []~SessionFailed
      /\ InputReturns
      /\ []~WalkCapped
      /\ ~[]<>SelfLoopTaken
      => <>EndedAtMount)

\* C22: mount is the only position with no available action, and a run in
\* which the user never quits (no quit word, no end of input, no interrupt),
\* no input fails to decode at a continue prompt, every menu prompt is in the
\* end answered with a choice the prompt accepts, every continue prompt is
\* answered, and the closed_guard self-loop is not taken for ever reaches
\* mount, leaves the loop and produces the summary.
C22_Terminates ==
  /\ []MountIsTheOnlyTerminal
  /\ (/\ []~UserQuits
      /\ []~SessionFailed
      /\ [](cli.pc = "prompt" => <>(cli.pc = "chosen"))
      /\ [](cli.pc = "continue" => <>(cli.pc # "continue"))
      /\ []~WalkCapped
      /\ ~[]<>SelfLoopTaken
      => <>EndedAtMount)

\* C22 witness: the user took the self-loop once, then walked to mount; the
\* loop was left there and the summary produced.
C22_Witness ==
  /\ EndedAtMount
  /\ cli.status = 0
  /\ sessions[1].history =
       <<<<"closed_guard", "T2">>, <<"closed_guard", "T1">>, <<"broken_posture", "T6">>,
         <<"kimura_position", "T7">>, <<"sweep_position", "T8">>>>
  /\ last.ret.positions_visited = 6

(***************************************************************************)
(* No forced stop; the drill count                                         *)
(***************************************************************************)
\* C23: whenever a session's available actions are not empty, take_action is
\* possible on each of them, whatever the history holds (in the model: while
\* the history is shorter than MaxSteps); and a session that has just taken a
\* self-loop of the graph is where it was, with the self-loop among its
\* available actions again, so the walk can go on and never ends on its own.
C23_NoForcedStop ==
  \A sid \in DOMAIN sessions :
    /\ Len(sessions[sid].history) < MaxSteps =>
         \A i \in 1..Len(get_available_actions(sessions[sid])) :
           ENABLED take_action(sid, get_available_actions(sessions[sid])[i])
    /\ /\ last.op = "take_action"
       /\ last.self = sid
       /\ last.arg.to_position = last.arg.from_position
       /\ IsIn(get_transitions_from(graph, last.arg.from_position), last.arg)
       => /\ sessions[sid].current_position = last.arg.from_position
          /\ IsIn(get_available_actions(sessions[sid]), last.arg)
          /\ Len(sessions[sid].history) < MaxSteps => ENABLED take_action(sid, last.arg)

\* C23 witness: the session took the closed_guard self-loop, is at
\* closed_guard again, and can take the self-loop once more.
C23_Witness ==
  /\ cli.pc = "off"
  /\ last.op = "take_action"
  /\ last.arg = T2
  /\ sessions[1].history = <<<<"closed_guard", "T2">>>>
  /\ sessions[1].current_position = "closed_guard"
  /\ IsIn(get_available_actions(sessions[1]), T2)
  /\ ENABLED take_action(1, T2)

\* C24: in every session state the summary's total_drills is the length of
\* its drills list and is at most the number of actions taken
\* (positions_visited - 1); it is 0 for a new session and each take_action
\* raises it by one when the transition carries a drill and leaves it as it
\* was when the transition carries none, so it counts the taken transitions
\* that carried a drill.
C24_TotalDrills ==
  /\ [](\A sid \in DOMAIN sessions :
          LET sum == get_session_summary(sessions[sid])
          IN  /\ sum.total_drills = Len(sum.drills)
              /\ sum.total_drills <= sum.positions_visited - 1
              /\ sum.positions_visited - 1 = Len(sum.actions_taken)
              /\ sessions[sid].history = <<>> => sum.total_drills = 0)
  /\ [][last'.op = "take_action" /\ last' # last =>
          get_session_summary(sessions'[last'.self]).total_drills =
            get_session_summary(sessions[last'.self]).total_drills +
              (IF last'.arg.drill_prescription # None THEN 1 ELSE 0)]_vars
  /\ [](last.op = "get_session_summary" =>
          last.ret = get_session_summary(sessions[last.self]))

\* C24 witness: two actions were taken, one with a drill and one without;
\* the summary reports one drill for two actions.
C24_Witness ==
  /\ last.op = "get_session_summary"
  /\ last.ret.total_drills = 1
  /\ last.ret.drills = <<"D1">>
  /\ last.ret.positions_visited = 3
  /\ Len(sessions[last.self].history) = 2

====
